---- MODULE Spec2Model ----
(***************************************************************************)
(* Generic Markov chain engine (markov_chain.c, linked_list.c) with the    *)
(* string capabilities of tweets_generator.c (strcmp, ends-with-'.') and   *)
(* the cell capabilities and board builder of snakes_and_ladders.c.        *)
(*                                                                         *)
(* A MarkovNode pointer is the 1-based position of the node in the         *)
(* database list; 0 is the NULL pointer.  A frequency_list is the sequence *)
(* of its MarkovNodeFrequency entries; the NULL list is the empty sequence *)
(* (malloc/realloc never produce a list with zero entries).                *)
(***************************************************************************)
EXTENDS Integers, Sequences, FiniteSets, TLC

\* ---------------------------------------------------------------- bounds
MaxDb == 2          \* most add_to_database registrations made through the API
MaxRecorded == 3    \* most recordings (failed reallocs included) made through the API
MaxTokens == 4      \* most tokens of a corpus
MaxLength == 3      \* largest max_length handed to generate_random_sequence
MaxScenario == 4    \* most recordings made from the first registered state
MaxFrees == 2       \* most times the MarkovChain itself is handed to free()
MaxFaults == 1      \* most failed or dirty allocations while the board is built

\* ------------------------------------------------------- program constants
TRAVELLER == 0
WHICH_WORD == 0
LEN_OF_TWEET == 1
EXIT_SUCCESS == 0
EXIT_FAILURE == 1
NULL == 0
CHAIN == 1          \* the address of the one MarkovChain
DOT == 46           \* '.'

\* Words are C strings: sequences of character codes ("A", "B", "B.").
Words == { <<65>>, <<66>>, <<66, 46>> }

\* Values an uninitialised int read back from malloc'ed memory may hold.
Garbage == { -1, 0 }

MaxLengths == (-1) .. MaxLength

NULL_LIST == << >>

MIN_NUM_ARGS == 4
MAX_NUM_ARGS == 5

\* The two programs that install their functions in a MarkovChain.
TWEETS == "tweets_generator"
SNAKES == "snakes_and_ladders"

VARIABLES
    database,        \* LinkedList of MarkovNode, in insertion order
    ret,             \* <<operation, value>> returned by the last call
    save_last_one,   \* fill_without_limit: node of the previous token
    start_chain,     \* fill_without_limit: tokens read so far
    pc,              \* position of the walk generator
    node_to_return,  \* get_first_random_node: position of the traversal pointer
    num,             \* get_first_random_node: last drawn index
    last_rejected,   \* get_first_random_node: node the last rejected draw reached
    first_node,      \* generate_random_sequence: current node
    max_length,      \* generate_random_sequence: parameter
    len_of_tweet,    \* generate_random_sequence: loop counter
    random_num,      \* get_next_random_node: last drawn number
    rendered,        \* nodes handed to print_func, in order
    ptr_chain,       \* the caller's MarkovChain pointer: CHAIN or NULL
    has_database,    \* chain->database is not NULL
    capabilities,    \* the program whose functions the chain's pointers hold
    lost,            \* objects add_to_database allocated and left unlinked
    board_i,         \* fill_database_snakes: index i of the running loop
    alloc_faults,    \* fill_database_snakes: allocator misbehaviours so far
    corpus,          \* the tokens of the input file, in order
    words_to_read,   \* fill_database: the word limit
    args,            \* main of tweets_generator.c: the number of arguments
    frees            \* the objects handed to free() and free_data, in order

vars == << database, ret, save_last_one, start_chain, ptr_chain, has_database, capabilities, lost, corpus, words_to_read, args, board_i, alloc_faults, frees, pc, node_to_return, num, last_rejected, first_node, max_length,
           len_of_tweet, random_num, rendered >>

\* ------------------------------------------------------------ capabilities
Max(a, b) == IF a > b THEN a ELSE b

\* strcmp: difference of the first pair of differing characters, the
\* terminating NUL (0) included.
CharAt(s, i) == IF i <= Len(s) THEN s[i] ELSE 0

RECURSIVE strcmp_from(_, _, _)
strcmp_from(a, b, i) ==
    IF CharAt(a, i) # CharAt(b, i) THEN CharAt(a, i) - CharAt(b, i)
    ELSE IF CharAt(a, i) = 0 THEN 0
    ELSE strcmp_from(a, b, i + 1)

check_comp_fun(a, b) == strcmp_from(a, b, 1)

check_is_last(s) == s[Len(s)] = DOT

\* snakes_and_ladders.c: cell data is the cell number.
BOARD_SIZE == 100
comp_fun(first_data, second_data) == first_data - second_data
snakes_is_last(data) == data = BOARD_SIZE

\* chain->comp_func and chain->is_last, as main() of either program set them.
comp_func(a, b) ==
    IF capabilities = SNAKES THEN comp_fun(a, b) ELSE check_comp_fun(a, b)
is_last(s) ==
    IF capabilities = SNAKES THEN snakes_is_last(s) ELSE check_is_last(s)

\* ------------------------------------------------------------------- Init
Init ==
    /\ database = << >>
    /\ ret = << "none", 0 >>
    /\ save_last_one = NULL
    /\ start_chain = 0
    /\ pc = "idle"
    /\ node_to_return = NULL
    /\ num = 0
    /\ last_rejected = NULL
    /\ first_node = NULL
    /\ max_length = 0
    /\ len_of_tweet = 0
    /\ random_num = 0
    /\ rendered = << >>
    /\ ptr_chain = CHAIN
    /\ has_database = TRUE
    /\ capabilities = TWEETS
    /\ lost = << >>
    /\ board_i = 0
    /\ alloc_faults = 0
    /\ corpus = << >>
    /\ words_to_read = 0
    /\ args = MIN_NUM_ARGS
    /\ frees = << >>

\* ------------------------------------------------------------- linked list
\* Variant: the node is linked although the call reports failure.
add_links_on_failure(link_list, data, node_ok) ==
    [ list |-> Append(link_list, data), res |-> IF node_ok THEN 0 ELSE 1 ]

\* add(): append a Node holding `data`; 1 when malloc of the Node fails.
add(link_list, data, node_ok) ==
    IF node_ok THEN [ list |-> Append(link_list, data), res |-> 0 ]
    ELSE [ list |-> link_list, res |-> 1 ]

\* get_node_from_database: first node, from traveller on, whose data
\* compares equal, else NULL.
get_node_from(db, data_ptr, traveller) ==
    LET hits == { k \in traveller .. Len(db) :
                    comp_func(db[k].data, data_ptr) = 0 }
    IN  IF hits = {} THEN NULL
        ELSE CHOOSE k \in hits : \A m \in hits : k <= m

get_node_from_database(db, data_ptr) == get_node_from(db, data_ptr, 1)

\* ---------------------------------------------------------- state registry
\* The MarkovNode add_to_database builds: data, frequency_list and
\* following_count are assigned, all_following is left as malloc returned it.
\* num_of_nodes is the counter kept in frequency_list[0].
new_markov_node(data_ptr, junk) ==
    [ data |-> data_ptr,
      frequency_list |-> NULL_LIST,
      following_count |-> 0,
      all_following |-> junk,
      num_of_nodes |-> 0 ]

\* add_to_database: malloc the MarkovNode, copy the data, append.
\* outcome names the allocation that fails, if any.
AddOutcomes == { "ok", "malloc_fail", "copy_fail", "add_fail" }

add_to_database(db, data_ptr, outcome, junk) ==
    IF outcome = "malloc_fail" THEN [ db |-> db, res |-> NULL ]
    ELSE IF outcome = "copy_fail" THEN [ db |-> db, res |-> NULL ]
    ELSE LET added == add(db, new_markov_node(data_ptr, junk), outcome = "ok")
         IN  IF added.res = 1 THEN [ db |-> added.list, res |-> NULL ]
             ELSE [ db |-> added.list, res |-> Len(added.list) ]

\* No engine call is in progress, the process is alive and the chain has
\* its database and has not been freed.
NoCall ==
    /\ pc \in { "idle", "first_ret", "gen_done", "next_ret" }
    /\ ptr_chain # NULL
    /\ has_database
    /\ frees = << >>

ResetWalk ==
    /\ pc' = "idle"
    /\ node_to_return' = NULL
    /\ num' = 0
    /\ last_rejected' = NULL
    /\ first_node' = NULL
    /\ max_length' = 0
    /\ len_of_tweet' = 0
    /\ random_num' = 0
    /\ rendered' = << >>

AddToDatabase ==
    /\ NoCall
    /\ Len(database) < MaxDb
    /\ \E w \in Words, outcome \in AddOutcomes, junk \in Garbage :
         LET r == add_to_database(database, w, outcome, junk)
         IN  /\ database' = r.db
             /\ ret' = << "add_to_database", r.res >>
    /\ ResetWalk
    /\ UNCHANGED << save_last_one, start_chain, ptr_chain, has_database, capabilities, lost, corpus, words_to_read, args, board_i, alloc_faults, frees >>

\* -------------------------------------------------------- transition table
\* new_frequency_list: first entry (second_node, 1).
new_frequency_list(node, second_node, malloc_ok) ==
    IF ~malloc_ok
    THEN [ node |-> [ node EXCEPT !.frequency_list = NULL_LIST ],
           res |-> EXIT_FAILURE ]
    ELSE [ node |-> [ node EXCEPT
                        !.frequency_list =
                            << [ markov_node |-> second_node, frequency |-> 1 ] >>,
                        !.following_count = 1,
                        !.num_of_nodes = 1,
                        !.all_following = 1 ],
           res |-> EXIT_SUCCESS ]

\* add_num_of_frequency: position of the first entry whose target compares
\* equal to second_node, 0 when there is none.
\* Variant: entries are matched by node pointer, not through comp_func.
RECURSIVE find_entry_by_pointer(_, _, _, _)
find_entry_by_pointer(db, node, second_node, i) ==
    IF i > node.following_count THEN 0
    ELSE IF node.frequency_list[i].markov_node = second_node THEN i
    ELSE find_entry_by_pointer(db, node, second_node, i + 1)

RECURSIVE find_entry(_, _, _, _)
find_entry(db, node, second_node, i) ==
    IF i > node.following_count THEN 0
    ELSE IF comp_func(db[node.frequency_list[i].markov_node].data,
                      db[second_node].data) = 0 THEN i
    ELSE find_entry(db, node, second_node, i + 1)

\* Variant: the entry is incremented, the total is not.
add_num_of_frequency_entry_only(db, node, second_node) ==
    LET i == find_entry(db, node, second_node, 1)
    IN  IF i = 0 THEN [ node |-> node, res |-> EXIT_FAILURE ]
        ELSE [ node |-> [ node EXCEPT !.frequency_list[i].frequency = @ + 1 ],
               res |-> EXIT_SUCCESS ]

add_num_of_frequency(db, node, second_node) ==
    LET i == find_entry(db, node, second_node, 1)
    IN  IF i = 0 THEN [ node |-> node, res |-> EXIT_FAILURE ]
        ELSE [ node |-> [ node EXCEPT
                            !.frequency_list[i].frequency = @ + 1,
                            !.all_following = @ + 1 ],
               res |-> EXIT_SUCCESS ]

add_node_to_frequency_list(db, first, second_node, alloc_ok) ==
    LET node == db[first]
    IN  IF node.frequency_list = NULL_LIST
        THEN new_frequency_list(node, second_node, alloc_ok)
        ELSE LET inc == add_num_of_frequency(db, node, second_node)
                 counted == [ node EXCEPT !.num_of_nodes = @ + 1 ]
             IN  IF inc.res = EXIT_SUCCESS THEN inc
                 ELSE IF ~alloc_ok
                 THEN [ node |-> counted, res |-> EXIT_FAILURE ]
                 ELSE [ node |-> [ counted EXCEPT
                                     !.frequency_list =
                                         Append(@, [ markov_node |-> second_node,
                                                     frequency |-> 1 ]),
                                     !.following_count = @ + 1,
                                     !.all_following = @ + 1 ],
                        res |-> EXIT_SUCCESS ]

RECURSIVE SumFrequency(_)
SumFrequency(list) ==
    IF list = << >> THEN 0
    ELSE list[1].frequency + SumFrequency(Tail(list))

RECURSIVE Recorded(_)
Recorded(db) ==
    IF db = << >> THEN 0
    ELSE SumFrequency(db[1].frequency_list) + Recorded(Tail(db))

\* Reallocs that failed so far: each left num_of_nodes one ahead.
RECURSIVE FailedReallocs(_)
FailedReallocs(db) ==
    IF db = << >> THEN 0
    ELSE (db[1].num_of_nodes - db[1].following_count) + FailedReallocs(Tail(db))

AddNodeToFrequencyList ==
    /\ NoCall
    /\ Recorded(database) + FailedReallocs(database) < MaxRecorded
    /\ \E s \in 1 .. Len(database), t \in 1 .. Len(database), alloc_ok \in BOOLEAN :
         LET r == add_node_to_frequency_list(database, s, t, alloc_ok)
         IN  /\ database' = [ database EXCEPT ![s] = r.node ]
             /\ ret' = << "add_node_to_frequency_list", r.res >>
    /\ ResetWalk
    /\ UNCHANGED << save_last_one, start_chain, ptr_chain, has_database, capabilities, lost, corpus, words_to_read, args, board_i, alloc_faults, frees >>

\* ------------------------------------------------------------ weighted pick
\* which_node: position of the first entry whose running sum of frequencies
\* exceeds random_num; the first entry when the loop runs out.
\* Variant: the running sum is compared with >= instead of >.
RECURSIVE which_node_loop_ge(_, _, _, _)
which_node_loop_ge(node, rnd, i, which_word) ==
    IF i > node.following_count THEN 1
    ELSE LET acc == which_word + node.frequency_list[i].frequency
         IN  IF acc >= rnd THEN i
             ELSE which_node_loop_ge(node, rnd, i + 1, acc)

RECURSIVE which_node_loop(_, _, _, _)
which_node_loop(node, rnd, i, which_word) ==
    IF i > node.following_count THEN 1
    ELSE LET acc == which_word + node.frequency_list[i].frequency
         IN  IF acc > rnd THEN i
             ELSE which_node_loop(node, rnd, i + 1, acc)

which_node(node, rnd) == which_node_loop(node, rnd, 1, WHICH_WORD)

\* get_random_number(max_number) for max_number > 0: rand() is non-negative,
\* so rand() % max_number ranges over [0, max_number).
get_random_number(max_number) == 0 .. (max_number - 1)

\* get_next_random_node on a node without a list divides by an
\* uninitialised all_following and reads entry 0 of a NULL list: the
\* process dies (SIGFPE or SIGSEGV).
CanSample(node) == node.frequency_list # NULL_LIST

Draws(node) ==
    IF CanSample(node) THEN get_random_number(node.all_following) ELSE { 0 }

\* Variant: the position of the chosen entry is returned as the node.
get_next_random_node_position(node, rnd) ==
    which_node(node, rnd)

get_next_random_node(node, rnd) ==
    node.frequency_list[which_node(node, rnd)].markov_node

\* A single get_next_random_node call made through the API.
GetNextRandomNode ==
    /\ NoCall
    /\ \E s \in 1 .. Len(database) : \E rnd \in Draws(database[s]) :
         IF CanSample(database[s])
         THEN /\ pc' = "next_ret"
              /\ first_node' = s
              /\ random_num' = rnd
              /\ ret' = << "get_next_random_node",
                           get_next_random_node(database[s], rnd) >>
         ELSE /\ pc' = "crashed"
              /\ first_node' = s
              /\ random_num' = rnd
              /\ ret' = << "none", 0 >>
    /\ UNCHANGED << database, save_last_one, start_chain, ptr_chain, has_database, capabilities, lost, corpus, words_to_read, args, board_i, alloc_faults, frees, node_to_return, num, last_rejected,
                    max_length, len_of_tweet, rendered >>

\* ------------------------------------------------------- corpus builder
\* Variant: a transition is recorded also after a token that ends with '.'.
fill_token_after_dot(db, last, token, outcome, junk, alloc_ok) ==
    LET found == get_node_from_database(db, token)
        added == IF found = NULL THEN add_to_database(db, token, outcome, junk)
                 ELSE [ db |-> db, res |-> found ]
        has_node == added.res
        db1 == added.db
    IN  IF has_node = NULL
        THEN [ db |-> db1, last |-> last, res |-> EXIT_FAILURE ]
        ELSE IF last # NULL
        THEN LET r == add_node_to_frequency_list(db1, last, has_node, alloc_ok)
                 db2 == [ db1 EXCEPT ![last] = r.node ]
             IN  IF r.res = EXIT_FAILURE
                 THEN [ db |-> db2, last |-> last, res |-> EXIT_FAILURE ]
                 ELSE [ db |-> db2, last |-> has_node, res |-> EXIT_SUCCESS ]
        ELSE [ db |-> db1, last |-> has_node, res |-> EXIT_SUCCESS ]

\* One pass of the token loop of fill_without_limit.
fill_token(db, last, token, outcome, junk, alloc_ok) ==
    LET found == get_node_from_database(db, token)
        added == IF found = NULL THEN add_to_database(db, token, outcome, junk)
                 ELSE [ db |-> db, res |-> found ]
        has_node == added.res
        db1 == added.db
    IN  IF has_node = NULL
        THEN [ db |-> db1, last |-> last, res |-> EXIT_FAILURE ]
        ELSE IF last # NULL /\ ~(db1[last].data[Len(db1[last].data)] = DOT)
        THEN LET r == add_node_to_frequency_list(db1, last, has_node, alloc_ok)
                 db2 == [ db1 EXCEPT ![last] = r.node ]
             IN  IF r.res = EXIT_FAILURE
                 THEN [ db |-> db2, last |-> last, res |-> EXIT_FAILURE ]
                 ELSE [ db |-> db2, last |-> has_node, res |-> EXIT_SUCCESS ]
        ELSE [ db |-> db1, last |-> has_node, res |-> EXIT_SUCCESS ]

FillToken ==
    /\ pc = "fill"
    /\ start_chain < MaxTokens
    /\ \E token \in Words, outcome \in AddOutcomes, junk \in Garbage,
          alloc_ok \in BOOLEAN :
         LET r == fill_token(database, save_last_one, token, outcome, junk, alloc_ok)
         IN  /\ database' = r.db
             /\ save_last_one' = r.last
             /\ IF r.res = EXIT_FAILURE
                THEN /\ pc' = "exit"
                     /\ ret' = << "fill_without_limit", EXIT_FAILURE >>
                     /\ start_chain' = start_chain
                ELSE /\ pc' = "fill"
                     /\ ret' = ret
                     /\ start_chain' = start_chain + 1
    /\ UNCHANGED << node_to_return, num, last_rejected, first_node, max_length, len_of_tweet,
                    random_num, rendered, ptr_chain, has_database, capabilities, lost, corpus, words_to_read, args, board_i, alloc_faults, frees >>

\* fgets returns NULL: the corpus is read, fill_without_limit succeeds.
FillEOF ==
    /\ pc = "fill"
    /\ pc' = "idle"
    /\ ret' = << "fill_without_limit", EXIT_SUCCESS >>
    /\ UNCHANGED << database, save_last_one, start_chain, ptr_chain, has_database, capabilities, lost, corpus, words_to_read, args, board_i, alloc_faults, frees, node_to_return, num, last_rejected,
                    first_node, max_length, len_of_tweet, random_num, rendered >>

\* ----------------------------------------------------------- walk generator
first_of(db) == IF Len(db) = 0 THEN NULL ELSE 1
next_of(db, node) == IF node < Len(db) THEN node + 1 ELSE NULL

SEGV == -1

\* The inner loop of get_first_random_node: follow `next` until traveller
\* reaches the drawn index; following the NULL pointer faults.
RECURSIVE travel(_, _, _, _)
travel(db, node, traveller, drawn) ==
    IF traveller = drawn THEN node
    ELSE IF node = NULL THEN SEGV
    ELSE travel(db, next_of(db, node), traveller + 1, drawn)

\* Variant: the pointer is not put back on the first node after a rejection.
first_iteration_no_reset(db, node, drawn) ==
    LET reached == travel(db, node, TRAVELLER, drawn)
    IN  IF reached = SEGV \/ reached = NULL
        THEN [ pc |-> "crashed", node |-> NULL ]
        ELSE IF ~is_last(db[reached].data)
        THEN [ pc |-> "first_ret", node |-> reached ]
        ELSE [ pc |-> "first_loop", node |-> reached ]

\* Variant: the drawn node is returned whether or not it is terminal.
first_iteration_any(db, node, drawn) ==
    LET reached == travel(db, node, TRAVELLER, drawn)
    IN  IF reached = SEGV \/ reached = NULL
        THEN [ pc |-> "crashed", node |-> NULL ]
        ELSE [ pc |-> "first_ret", node |-> reached ]

\* One pass of the outer loop of get_first_random_node with index `drawn`.
first_iteration(db, node, drawn) ==
    LET reached == travel(db, node, TRAVELLER, drawn)
    IN  IF reached = SEGV \/ reached = NULL
        THEN [ pc |-> "crashed", node |-> NULL ]
        ELSE IF ~is_last(db[reached].data)
        THEN [ pc |-> "first_ret", node |-> reached ]
        ELSE [ pc |-> "first_loop", node |-> first_of(db) ]

GetFirstCall ==
    /\ NoCall
    /\ pc' = "first_loop"
    /\ node_to_return' = first_of(database)
    /\ num' = 0
    /\ last_rejected' = NULL
    /\ first_node' = NULL
    /\ max_length' = 0
    /\ len_of_tweet' = 0
    /\ random_num' = 0
    /\ rendered' = << >>
    /\ UNCHANGED << database, ret, save_last_one, start_chain, ptr_chain, has_database, capabilities, lost, corpus, words_to_read, args, board_i, alloc_faults, frees >>

\* rand() % size with size = 0 is a division by zero.
Indexes(db) == IF Len(db) = 0 THEN { 0 } ELSE get_random_number(Len(db))

GetFirstIter(drawn) ==
    /\ pc = "first_loop"
    /\ drawn \in Indexes(database)
    /\ LET r == IF Len(database) = 0 THEN [ pc |-> "crashed", node |-> NULL ]
                ELSE first_iteration(database, node_to_return, drawn)
       IN  /\ pc' = r.pc
           /\ node_to_return' = r.node
           /\ num' = drawn
           /\ last_rejected' = IF r.pc = "first_loop"
                                THEN travel(database, node_to_return, TRAVELLER, drawn)
                                ELSE last_rejected
    /\ UNCHANGED << database, ret, save_last_one, start_chain, ptr_chain, has_database, capabilities, lost, corpus, words_to_read, args, board_i, alloc_faults, frees, first_node,
                    max_length, len_of_tweet, random_num, rendered >>

GenerateCall ==
    /\ NoCall
    /\ \E s \in 1 .. Len(database), m \in MaxLengths :
         /\ first_node' = s
         /\ max_length' = m
    /\ len_of_tweet' = LEN_OF_TWEET
    /\ rendered' = << >>
    /\ pc' = "gen_loop"
    /\ node_to_return' = NULL
    /\ num' = 0
    /\ last_rejected' = NULL
    /\ random_num' = 0
    /\ UNCHANGED << database, ret, save_last_one, start_chain, ptr_chain, has_database, capabilities, lost, corpus, words_to_read, args, board_i, alloc_faults, frees >>

\* generate_random_sequence called with first_node == NULL: the loop
\* condition reads first_node->data through the NULL pointer and faults
\* before anything is chosen or printed.
GenerateNull ==
    /\ NoCall
    /\ \E m \in MaxLengths : max_length' = m
    /\ first_node' = NULL
    /\ len_of_tweet' = LEN_OF_TWEET
    /\ rendered' = << >>
    /\ pc' = "crashed"
    /\ node_to_return' = NULL
    /\ num' = 0
    /\ last_rejected' = NULL
    /\ random_num' = 0
    /\ UNCHANGED << database, ret, save_last_one, start_chain, ptr_chain, has_database, capabilities, lost, corpus, words_to_read, args, board_i, alloc_faults, frees >>

\* Variant: the walk stops one pass before the budget is used up.
keep_walking_early(db, node, len, max) ==
    (~is_last(db[node].data)) /\ len + 1 < max

\* Variant: the length test lets one more pass through.
keep_walking_le(db, node, len, max) ==
    (~is_last(db[node].data)) /\ len <= max

\* Variant: only the length is tested.
keep_walking_len_only(db, node, len, max) ==
    len < max

\* The loop condition of generate_random_sequence.
keep_walking(db, node, len, max) ==
    (~is_last(db[node].data)) /\ len < max

\* Variant: a pass counts the visit in the table it sampled from.
GenerateIter_counting ==
    /\ pc = "gen_loop"
    /\ \E rnd \in Draws(database[first_node]) :
         IF ~keep_walking(database, first_node, len_of_tweet, max_length)
         THEN /\ pc' = "gen_done"
              /\ UNCHANGED << database, first_node, len_of_tweet, random_num, rendered >>
         ELSE IF ~CanSample(database[first_node])
         THEN /\ pc' = "crashed"
              /\ UNCHANGED << database, first_node, len_of_tweet, random_num, rendered >>
         ELSE LET nxt == get_next_random_node(database[first_node], rnd)
              IN  /\ pc' = "gen_loop"
                  /\ database' = [ database EXCEPT
                                     ![first_node].all_following = @ + 1 ]
                  /\ first_node' = nxt
                  /\ random_num' = rnd
                  /\ rendered' = Append(rendered, nxt)
                  /\ len_of_tweet' = len_of_tweet + 1
    /\ UNCHANGED << ret, save_last_one, start_chain, ptr_chain, has_database, capabilities, lost, corpus, words_to_read, args, board_i, alloc_faults, frees, node_to_return,
                    num, last_rejected, max_length >>

\* One evaluation of the loop condition of generate_random_sequence and,
\* when it holds, one pass of the loop.
GenerateIter ==
    /\ pc = "gen_loop"
    /\ \E rnd \in Draws(database[first_node]) :
         IF ~keep_walking(database, first_node, len_of_tweet, max_length)
         THEN /\ pc' = "gen_done"
              /\ UNCHANGED << first_node, len_of_tweet, random_num, rendered >>
         ELSE IF ~CanSample(database[first_node])
         THEN /\ pc' = "crashed"
              /\ UNCHANGED << first_node, len_of_tweet, random_num, rendered >>
         ELSE LET nxt == get_next_random_node(database[first_node], rnd)
              IN  /\ pc' = "gen_loop"
                  /\ first_node' = nxt
                  /\ random_num' = rnd
                  /\ rendered' = Append(rendered, nxt)
                  /\ len_of_tweet' = len_of_tweet + 1
    /\ UNCHANGED << database, ret, save_last_one, start_chain, ptr_chain, has_database, capabilities, lost, corpus, words_to_read, args, board_i, alloc_faults, frees, node_to_return,
                    num, last_rejected, max_length >>

\* ---------------------------------------------------------- specifications
\* The engine called through its API: registrations, recordings, picks.
Next ==
    \/ AddToDatabase
    \/ AddNodeToFrequencyList
    \/ GetNextRandomNode

Spec == Init /\ [][Next]_vars

\* The chain filled from a corpus, then walked.
InitFill ==
    /\ database = << >>
    /\ ret = << "none", 0 >>
    /\ save_last_one = NULL
    /\ start_chain = 0
    /\ pc = "fill"
    /\ node_to_return = NULL
    /\ num = 0
    /\ last_rejected = NULL
    /\ first_node = NULL
    /\ max_length = 0
    /\ len_of_tweet = 0
    /\ random_num = 0
    /\ rendered = << >>
    /\ ptr_chain = CHAIN
    /\ has_database = TRUE
    /\ capabilities = TWEETS
    /\ lost = << >>
    /\ board_i = 0
    /\ alloc_faults = 0
    /\ corpus = << >>
    /\ words_to_read = 0
    /\ args = MIN_NUM_ARGS
    /\ frees = << >>

NextWalk ==
    \/ FillToken
    \/ FillEOF
    \/ GetFirstCall
    \/ \E drawn \in 0 .. (MaxTokens - 1) : GetFirstIter(drawn)
    \/ GenerateNull
    \/ GenerateCall
    \/ GenerateIter

WalkSpec == InitFill /\ [][NextWalk]_vars

\* Every index is drawn again and again while get_first_random_node loops.
LiveSpec ==
    /\ InitFill
    /\ [][NextWalk]_vars
    /\ \A drawn \in 0 .. (MaxTokens - 1) : WF_vars(GetFirstIter(drawn))

\* Recordings whose source is the first registered state.
RecordFromFirst ==
    /\ NoCall
    /\ Len(database) >= 1
    /\ Recorded(database) + FailedReallocs(database) < MaxScenario
    /\ \E t \in 1 .. Len(database), alloc_ok \in BOOLEAN :
         LET r == add_node_to_frequency_list(database, 1, t, alloc_ok)
         IN  /\ database' = [ database EXCEPT ![1] = r.node ]
             /\ ret' = << "add_node_to_frequency_list", r.res >>
    /\ ResetWalk
    /\ UNCHANGED << save_last_one, start_chain, ptr_chain, has_database, capabilities, lost, corpus, words_to_read, args, board_i, alloc_faults, frees >>

NextScenario ==
    \/ AddToDatabase
    \/ RecordFromFirst
    \/ GetNextRandomNode

ScenarioSpec == Init /\ [][NextScenario]_vars

\* ---------------------------------------------------------------- teardown
\* Number of times obj occurs in a log of free() calls.
RECURSIVE Count(_, _)
Count(log, obj) ==
    IF log = << >> THEN 0
    ELSE (IF log[1] = obj THEN 1 ELSE 0) + Count(Tail(log), obj)

THE_DATABASE == << "database", 0 >>
THE_CHAIN == << "chain", 0 >>

\* Variant: the frequency list of a node is not released.
free_node_without_list(db, traveller) ==
    << << "data", traveller >>,
       << "markov_node", traveller >>,
       << "node", traveller >> >>

\* One pass of the loop of free_markov_chain: free_data on the data, free
\* of the frequency list when there is one, of the MarkovNode and of the Node.
free_node(db, traveller) ==
    << << "data", traveller >> >>
    \o (IF db[traveller].frequency_list # NULL_LIST
        THEN << << "frequency_list", traveller >> >> ELSE << >>)
    \o << << "markov_node", traveller >>, << "node", traveller >> >>

RECURSIVE free_nodes(_, _, _)
free_nodes(db, traveller, log) ==
    IF traveller = NULL THEN log
    ELSE free_nodes(db, next_of(db, traveller), log \o free_node(db, traveller))

\* free_markov_chain(&chain) on a chain that has not been freed.  With
\* chain->database == NULL only the local copy of the pointer is cleared.
free_markov_chain(ptr, has_db, db, log) ==
    IF ptr = NULL THEN [ ptr |-> ptr, log |-> log ]
    ELSE IF ~has_db THEN [ ptr |-> ptr, log |-> Append(log, THE_CHAIN) ]
    ELSE [ ptr |-> NULL,
           log |-> Append(Append(free_nodes(db, first_of(db), log),
                                 THE_DATABASE), THE_CHAIN) ]

\* A call through a pointer to the freed MarkovChain reads chain->database
\* from released memory: it still reads NULL and frees the chain again, or
\* it reads something else and faults.
UseAfterFree == { "reads_null", "faults" }

FreeMarkovChain ==
    /\ pc \in { "idle", "first_ret", "gen_done", "next_ret" }
    /\ Count(frees, THE_CHAIN) < MaxFrees
    /\ \E uaf \in UseAfterFree :
         IF ptr_chain # NULL /\ Count(frees, THE_CHAIN) > 0
         THEN IF uaf = "reads_null"
              THEN /\ frees' = Append(frees, THE_CHAIN)
                   /\ UNCHANGED << ptr_chain, pc >>
              ELSE /\ pc' = "crashed"
                   /\ UNCHANGED << ptr_chain, frees >>
         ELSE LET r == free_markov_chain(ptr_chain, has_database, database, frees)
              IN  /\ ptr_chain' = r.ptr
                  /\ frees' = r.log
                  /\ pc' = pc
    /\ ret' = << "free_markov_chain", 0 >>
    /\ UNCHANGED << database, save_last_one, start_chain, has_database, capabilities, lost, corpus, words_to_read, args, board_i, alloc_faults,
                    node_to_return, num, last_rejected, first_node, max_length,
                    len_of_tweet, random_num, rendered >>

\* The caller built the chain with or without a database.
InitFree ==
    /\ database = << >>
    /\ ret = << "none", 0 >>
    /\ save_last_one = NULL
    /\ start_chain = 0
    /\ pc = "idle"
    /\ node_to_return = NULL
    /\ num = 0
    /\ last_rejected = NULL
    /\ first_node = NULL
    /\ max_length = 0
    /\ len_of_tweet = 0
    /\ random_num = 0
    /\ rendered = << >>
    /\ ptr_chain = CHAIN
    /\ has_database \in BOOLEAN
    /\ capabilities = TWEETS
    /\ lost = << >>
    /\ board_i = 0
    /\ alloc_faults = 0
    /\ corpus = << >>
    /\ words_to_read = 0
    /\ args = MIN_NUM_ARGS
    /\ frees = << >>

NextFree ==
    \/ AddToDatabase
    \/ AddNodeToFrequencyList
    \/ FreeMarkovChain

FreeSpec == InitFree /\ [][NextFree]_vars

\* ------------------------------------------------------ snakes and ladders
EMPTY == -1
DICE_MAX == 6
NUM_OF_TRANSITIONS == 20

transitions ==
    << << 13, 4 >>, << 85, 17 >>, << 95, 67 >>, << 97, 58 >>, << 66, 89 >>,
       << 87, 31 >>, << 57, 83 >>, << 91, 25 >>, << 28, 50 >>, << 35, 11 >>,
       << 8, 30 >>, << 41, 62 >>, << 81, 43 >>, << 69, 32 >>, << 20, 39 >>,
       << 33, 70 >>, << 79, 99 >>, << 23, 76 >>, << 15, 47 >>, << 61, 14 >> >>

\* The second loop of create_board: transition t and the ones after it
\* written into the cells.  cells[k] here is cells[k - 1] of the C array.
RECURSIVE add_transitions(_, _)
add_transitions(board, t) ==
    IF t > NUM_OF_TRANSITIONS THEN board
    ELSE LET from == transitions[t][1]
             to == transitions[t][2]
         IN  add_transitions(
                 [ board EXCEPT ![from] =
                     IF from < to THEN [ @ EXCEPT !.ladder_to = to ]
                     ELSE [ @ EXCEPT !.snake_to = to ] ],
                 t + 1)

\* create_board when every malloc succeeds.
cells ==
    add_transitions(
        [ k \in 1 .. BOARD_SIZE |->
            [ number |-> k, ladder_to |-> EMPTY, snake_to |-> EMPTY ] ],
        1)

\* The dice loop of fill_database_snakes from roll j on; the allocation of
\* roll fail_at fails.  get_node_from_database(...)->data on a cell that is
\* not in the database reads through NULL.
RECURSIVE dice_rolls(_, _, _, _)
dice_rolls(db, from_node, j, fail_at) ==
    IF j > DICE_MAX THEN [ db |-> db, res |-> EXIT_SUCCESS ]
    ELSE LET index_to == db[from_node].data + j - 1
         IN  IF index_to >= BOARD_SIZE THEN [ db |-> db, res |-> EXIT_SUCCESS ]
             ELSE LET to_node ==
                          get_node_from_database(db, cells[index_to + 1].number)
                  IN  IF to_node = NULL THEN [ db |-> db, res |-> SEGV ]
                      ELSE LET r == add_node_to_frequency_list(
                                        db, from_node, to_node, j # fail_at)
                               db1 == [ db EXCEPT ![from_node] = r.node ]
                           IN  IF r.res = EXIT_FAILURE
                               THEN [ db |-> db1, res |-> EXIT_FAILURE ]
                               ELSE dice_rolls(db1, from_node, j + 1, fail_at)

\* One pass of the loop that builds the transitions, for the cell at C index
\* at.  The result of add_node_to_frequency_list is not looked at for a cell
\* with a snake or a ladder.
link_cell(db, at, fail_at) ==
    LET cell == cells[at + 1]
        from_node == get_node_from_database(db, cell.number)
    IN  IF from_node = NULL THEN [ db |-> db, res |-> SEGV ]
        ELSE IF cell.snake_to # EMPTY \/ cell.ladder_to # EMPTY
        THEN LET index_to == Max(cell.snake_to, cell.ladder_to) - 1
                 to_node == get_node_from_database(db, cells[index_to + 1].number)
             IN  IF to_node = NULL THEN [ db |-> db, res |-> SEGV ]
                 ELSE LET r == add_node_to_frequency_list(
                                   db, from_node, to_node, fail_at = 0)
                      IN  [ db |-> [ db EXCEPT ![from_node] = r.node ],
                            res |-> EXIT_SUCCESS ]
        ELSE dice_rolls(db, from_node, 1, fail_at)

\* fill_database_snakes is entered: create_board.
FillSnakesCall ==
    /\ pc = "idle"
    /\ capabilities = SNAKES
    /\ database = << >>
    /\ ret = << "none", 0 >>
    /\ \E board_ok \in BOOLEAN :
         IF board_ok
         THEN /\ pc' = "board_add"
              /\ ret' = ret
         ELSE /\ pc' = "exit"
              /\ ret' = << "fill_database_snakes", EXIT_FAILURE >>
    /\ board_i' = 0
    /\ UNCHANGED << database, save_last_one, start_chain, ptr_chain, has_database,
                    capabilities, lost, corpus, words_to_read, args, alloc_faults, frees, node_to_return, num,
                    last_rejected, first_node, max_length, len_of_tweet,
                    random_num, rendered >>

\* An allocation may fail, or hand back memory that is not zero, while
\* fewer than MaxFaults did.
BoardAddOutcomes == IF alloc_faults < MaxFaults THEN AddOutcomes ELSE { "ok" }
BoardGarbage == IF alloc_faults < MaxFaults THEN Garbage ELSE { 0 }

\* One pass of the first loop: add_to_database(markov_chain, cells[i]), its
\* result dropped.
BoardAdd ==
    /\ pc = "board_add"
    /\ \E outcome \in BoardAddOutcomes, junk \in BoardGarbage :
         /\ (outcome = "ok" \/ junk = 0)
         /\ database' =
                add_to_database(database, cells[board_i + 1].number, outcome, junk).db
         /\ alloc_faults' =
                IF outcome = "ok" /\ junk = 0 THEN alloc_faults ELSE alloc_faults + 1
    /\ IF board_i + 1 < BOARD_SIZE
       THEN /\ board_i' = board_i + 1
            /\ pc' = "board_add"
       ELSE /\ board_i' = 0
            /\ pc' = "board_link"
    /\ UNCHANGED << ret, save_last_one, start_chain, ptr_chain, has_database,
                    capabilities, lost, corpus, words_to_read, args, frees, node_to_return, num, last_rejected,
                    first_node, max_length, len_of_tweet, random_num, rendered >>

\* Roll whose allocation fails in a pass of the second loop: 0 for none (for a
\* snake or ladder cell 0 stands for success, anything else for failure).
FailAt == IF alloc_faults < MaxFaults THEN 0 .. DICE_MAX ELSE { 0 }

\* One pass of the second loop; after the last one the cells are freed and
\* fill_database_snakes returns EXIT_SUCCESS.
BoardLink ==
    /\ pc = "board_link"
    /\ \E fail_at \in FailAt :
         LET cell == cells[board_i + 1]
             forced == cell.snake_to # EMPTY \/ cell.ladder_to # EMPTY
             fail == IF forced THEN IF fail_at = 0 THEN 0 ELSE 1 ELSE fail_at
             r == link_cell(database, board_i, fail)
         IN  /\ (forced => fail_at <= 1)
             /\ database' = r.db
             /\ alloc_faults' = IF fail = 0 THEN alloc_faults ELSE alloc_faults + 1
             /\ IF r.res = SEGV
                THEN /\ pc' = "crashed"
                     /\ ret' = ret
                     /\ board_i' = board_i
                ELSE IF r.res = EXIT_FAILURE
                THEN /\ pc' = "exit"
                     /\ ret' = << "fill_database_snakes", EXIT_FAILURE >>
                     /\ board_i' = board_i
                ELSE IF board_i + 1 < BOARD_SIZE
                THEN /\ pc' = "board_link"
                     /\ ret' = ret
                     /\ board_i' = board_i + 1
                ELSE /\ pc' = "board_done"
                     /\ ret' = << "fill_database_snakes", EXIT_SUCCESS >>
                     /\ board_i' = BOARD_SIZE
    /\ UNCHANGED << save_last_one, start_chain, ptr_chain, has_database,
                    capabilities, lost, corpus, words_to_read, args, frees, node_to_return, num, last_rejected,
                    first_node, max_length, len_of_tweet, random_num, rendered >>

\* main() of snakes_and_ladders.c up to the call of fill_database_snakes.
InitBoard ==
    /\ database = << >>
    /\ ret = << "none", 0 >>
    /\ save_last_one = NULL
    /\ start_chain = 0
    /\ pc = "idle"
    /\ node_to_return = NULL
    /\ num = 0
    /\ last_rejected = NULL
    /\ first_node = NULL
    /\ max_length = 0
    /\ len_of_tweet = 0
    /\ random_num = 0
    /\ rendered = << >>
    /\ ptr_chain = CHAIN
    /\ has_database = TRUE
    /\ capabilities = SNAKES
    /\ lost = << >>
    /\ board_i = 0
    /\ alloc_faults = 0
    /\ corpus = << >>
    /\ words_to_read = 0
    /\ args = MIN_NUM_ARGS
    /\ frees = << >>

NextBoard ==
    \/ FillSnakesCall
    \/ BoardAdd
    \/ BoardLink

BoardSpec == InitBoard /\ [][NextBoard]_vars

\* ------------------------------------------------- corpus builders, by file
\* One pass of the token loop of fill_database: as fill_without_limit, but
\* the result of add_to_database is not tested, and has_node->data reads
\* through NULL when the registration failed.
fill_database_token(db, last, token, outcome, junk, alloc_ok) ==
    LET found == get_node_from_database(db, token)
        added == IF found = NULL THEN add_to_database(db, token, outcome, junk)
                 ELSE [ db |-> db, res |-> found ]
        has_node == added.res
        db1 == added.db
    IN  IF has_node = NULL
        THEN [ db |-> db1, last |-> last, res |-> SEGV ]
        ELSE IF last # NULL /\ ~(db1[last].data[Len(db1[last].data)] = DOT)
        THEN LET r == add_node_to_frequency_list(db1, last, has_node, alloc_ok)
                 db2 == [ db1 EXCEPT ![last] = r.node ]
             IN  IF r.res = EXIT_FAILURE
                 THEN [ db |-> db2, last |-> last, res |-> EXIT_FAILURE ]
                 ELSE [ db |-> db2, last |-> has_node, res |-> EXIT_SUCCESS ]
        ELSE [ db |-> db1, last |-> has_node, res |-> EXIT_SUCCESS ]

\* The files and word limits main() is started with.
RECURSIVE Corpora(_)
Corpora(n) ==
    IF n = 0 THEN { << >> }
    ELSE LET shorter == Corpora(n - 1)
         IN  shorter \cup { Append(c, w) : c \in { d \in shorter : Len(d) = n - 1 },
                                            w \in Words }

WordLimits == (-1) .. (MaxTokens + 1)

\* Tokens are left and, in fill_database, the limit is not reached.
more_tokens ==
    /\ start_chain < Len(corpus)
    /\ args = MAX_NUM_ARGS => start_chain < words_to_read

\* fill_without_limit: one pass of the token loop on the next token.
ReadToken ==
    /\ pc = "corpus"
    /\ args # MAX_NUM_ARGS
    /\ more_tokens
    /\ \E outcome \in AddOutcomes, junk \in Garbage, alloc_ok \in BOOLEAN :
         LET r == fill_token(database, save_last_one, corpus[start_chain + 1],
                             outcome, junk, alloc_ok)
         IN  /\ database' = r.db
             /\ save_last_one' = r.last
             /\ IF r.res = EXIT_FAILURE
                THEN /\ pc' = "exit"
                     /\ ret' = << "fill_without_limit", EXIT_FAILURE >>
                     /\ start_chain' = start_chain
                ELSE /\ pc' = "corpus"
                     /\ ret' = ret
                     /\ start_chain' = start_chain + 1
    /\ UNCHANGED << ptr_chain, has_database, capabilities, lost, corpus, words_to_read,
                    args, board_i, alloc_faults, frees, node_to_return, num,
                    last_rejected, first_node, max_length, len_of_tweet,
                    random_num, rendered >>

\* fill_database: one pass of the token loop on the next token.
ReadTokenLimited ==
    /\ pc = "corpus"
    /\ args = MAX_NUM_ARGS
    /\ more_tokens
    /\ \E outcome \in AddOutcomes, junk \in Garbage, alloc_ok \in BOOLEAN :
         LET r == fill_database_token(database, save_last_one,
                                      corpus[start_chain + 1],
                                      outcome, junk, alloc_ok)
         IN  /\ database' = r.db
             /\ save_last_one' = r.last
             /\ IF r.res = SEGV
                THEN /\ pc' = "crashed"
                     /\ ret' = ret
                     /\ start_chain' = start_chain
                ELSE IF r.res = EXIT_FAILURE
                THEN /\ pc' = "exit"
                     /\ ret' = << "fill_database", EXIT_FAILURE >>
                     /\ start_chain' = start_chain
                ELSE /\ pc' = "corpus"
                     /\ ret' = ret
                     /\ start_chain' = start_chain + 1
    /\ UNCHANGED << ptr_chain, has_database, capabilities, lost, corpus, words_to_read,
                    args, board_i, alloc_faults, frees, node_to_return, num,
                    last_rejected, first_node, max_length, len_of_tweet,
                    random_num, rendered >>

\* The loops end: the file is read or the limit is reached.
CorpusDone ==
    /\ pc = "corpus"
    /\ ~more_tokens
    /\ pc' = "corpus_done"
    /\ ret' = << IF args = MAX_NUM_ARGS THEN "fill_database"
                 ELSE "fill_without_limit", EXIT_SUCCESS >>
    /\ UNCHANGED << database, save_last_one, start_chain, ptr_chain, has_database,
                    capabilities, lost, corpus, words_to_read, args, board_i,
                    alloc_faults, frees, node_to_return, num, last_rejected,
                    first_node, max_length, len_of_tweet, random_num, rendered >>

\* main() of tweets_generator.c up to the call of the builder.
InitCorpus ==
    /\ database = << >>
    /\ ret = << "none", 0 >>
    /\ save_last_one = NULL
    /\ start_chain = 0
    /\ pc = "corpus"
    /\ node_to_return = NULL
    /\ num = 0
    /\ last_rejected = NULL
    /\ first_node = NULL
    /\ max_length = 0
    /\ len_of_tweet = 0
    /\ random_num = 0
    /\ rendered = << >>
    /\ ptr_chain = CHAIN
    /\ has_database = TRUE
    /\ capabilities = TWEETS
    /\ lost = << >>
    /\ board_i = 0
    /\ alloc_faults = 0
    /\ corpus \in Corpora(MaxTokens)
    /\ args \in { MIN_NUM_ARGS, MAX_NUM_ARGS }
    /\ words_to_read \in IF args = MAX_NUM_ARGS THEN WordLimits ELSE { 0 }
    /\ frees = << >>

NextCorpus ==
    \/ ReadToken
    \/ ReadTokenLimited
    \/ CorpusDone

CorpusSpec == InitCorpus /\ [][NextCorpus]_vars

\* --------------------------------------------------- registrations, heap
\* What a call of add_to_database has allocated and not linked into the
\* database when it returns: nothing when malloc of the MarkovNode fails or
\* the call succeeds, the MarkovNode when copy_func fails, the MarkovNode
\* and the copy of the data when add() fails.
lost_by(outcome) ==
    IF outcome = "copy_fail" THEN << "markov_node" >>
    ELSE IF outcome = "add_fail" THEN << "markov_node", "data" >>
    ELSE << >>

\* add_to_database with the objects it leaves behind recorded.
AddToDatabaseHeap ==
    /\ NoCall
    /\ Len(database) + Len(lost) < MaxDb
    /\ \E w \in Words, outcome \in AddOutcomes, junk \in Garbage :
         LET r == add_to_database(database, w, outcome, junk)
         IN  /\ database' = r.db
             /\ ret' = << "add_to_database", r.res >>
             /\ lost' = lost \o lost_by(outcome)
    /\ ResetWalk
    /\ UNCHANGED << save_last_one, start_chain, ptr_chain, has_database,
                    capabilities, corpus, words_to_read, args, board_i,
                    alloc_faults, frees >>

NextHeap ==
    \/ AddToDatabaseHeap
    \/ AddNodeToFrequencyList
    \/ FreeMarkovChain

HeapSpec == Init /\ [][NextHeap]_vars

\* ------------------------------------------------------------------ claims
Nodes == 1 .. Len(database)
Entries(n) == 1 .. Len(database[n].frequency_list)
Target(n, i) == database[database[n].frequency_list[i].markov_node]

\* Sum of the frequencies of the first k entries of a list.
RECURSIVE Cumulative(_, _)
Cumulative(list, k) ==
    IF k = 0 THEN 0 ELSE Cumulative(list, k - 1) + list[k].frequency

\* C1: every state of the database has all_following equal to the sum of the
\* frequencies of its entries; a registered state with no recorded
\* transition has all_following = 0.
C1_TotalIsSum ==
    \A n \in Nodes :
        database[n].all_following = Cumulative(database[n].frequency_list,
                                               database[n].following_count)

\* C2: no frequency list holds two entries whose targets compare equal under
\* comp_func, and every entry has frequency >= 1.
C2_UniqueTargets ==
    \A n \in Nodes :
        /\ \A i \in Entries(n) : database[n].frequency_list[i].frequency >= 1
        /\ \A i \in Entries(n), j \in Entries(n) :
               i # j => comp_func(Target(n, i).data, Target(n, j).data) # 0

\* The database holds two nodes that compare equal, and recordings from one
\* of them to itself and to its equal landed in a single entry.
C2_Witness ==
    \E n \in Nodes, m \in Nodes :
        /\ n # m
        /\ \E i \in Entries(n) :
               /\ database[n].frequency_list[i].frequency >= 2
               /\ comp_func(Target(n, i).data, database[n].data) = 0
        /\ Len(database[n].frequency_list) = 1
        /\ comp_func(database[n].data, database[m].data) = 0

\* C3: for a state with a non-empty list and 0 <= random_num < all_following,
\* which_node returns the first entry, in insertion order, whose cumulative
\* frequency is strictly greater than random_num; a pick made through
\* get_next_random_node returns that entry's target.
FirstExceeding(list, rnd) ==
    CHOOSE i \in 1 .. Len(list) :
        /\ Cumulative(list, i) > rnd
        /\ \A j \in 1 .. (i - 1) : Cumulative(list, j) <= rnd

C3_FirstExceeding ==
    /\ \A n \in Nodes :
         database[n].frequency_list # NULL_LIST =>
            \A rnd \in 0 .. (database[n].all_following - 1) :
               /\ \E i \in Entries(n) :
                      Cumulative(database[n].frequency_list, i) > rnd
               /\ which_node(database[n], rnd)
                    = FirstExceeding(database[n].frequency_list, rnd)
    /\ pc = "next_ret" =>
         /\ random_num \in 0 .. (database[first_node].all_following - 1)
         /\ ret[2] = database[first_node].frequency_list[
                         FirstExceeding(database[first_node].frequency_list,
                                        random_num)].markov_node

\* A pick skipped a first entry of frequency 2 and returned the second entry.
C3_Witness ==
    /\ pc = "next_ret"
    /\ Len(database[first_node].frequency_list) = 2
    /\ database[first_node].frequency_list[1].frequency = 2
    /\ random_num = 2
    /\ ret[2] = database[first_node].frequency_list[2].markov_node

\* C4: for every entry e of a non-empty list, the number of integers r in
\* [0, all_following) for which which_node returns e equals e.frequency.
C4_Proportional ==
    \A n \in Nodes : \A i \in Entries(n) :
        Cardinality({ rnd \in 0 .. (database[n].all_following - 1) :
                        which_node(database[n], rnd) = i })
          = database[n].frequency_list[i].frequency

\* A list with entries of frequencies 1 and 2 has been sampled.
C4_Witness ==
    /\ pc = "next_ret"
    /\ Len(database[first_node].frequency_list) = 2
    /\ database[first_node].frequency_list[1].frequency = 1
    /\ database[first_node].frequency_list[2].frequency = 2
    /\ database[first_node].all_following = 3

\* C8: the database never contains two states that compare equal.
C8_NoEqualStates ==
    \A n \in Nodes, m \in Nodes :
        n # m => comp_func(database[n].data, database[m].data) # 0

C6_StopsAtTerminal ==
    /\ [](\A i \in 1 .. (Len(rendered) - 1) : ~is_last(database[rendered[i]].data))
    /\ [][ (pc = "gen_loop" /\ is_last(database[first_node].data)) =>
              /\ pc' = "gen_done"
              /\ rendered' = rendered
              /\ random_num' = random_num
              /\ first_node' = first_node ]_vars

\* A walk rendered a terminal state and ended with budget left.
C6_Witness ==
    /\ pc = "gen_done"
    /\ Len(rendered) >= 1
    /\ is_last(database[first_node].data)
    /\ len_of_tweet < max_length

\* C7: each call generate_random_sequence makes to get_next_random_node is on
\* a state whose frequency_list is non-NULL and whose all_following is > 0.
C7_NeverEmptyTable ==
    (pc = "gen_loop"
        /\ keep_walking(database, first_node, len_of_tweet, max_length)) =>
        /\ database[first_node].frequency_list # NULL_LIST
        /\ database[first_node].all_following > 0

\* C9: when get_first_random_node returns, the returned state is
\* non-terminal and is the state at the position of the most recently drawn
\* index; after a rejected draw the traversal restarts from the first node.
C9_FirstIsDrawn ==
    /\ pc = "first_ret" =>
         /\ num \in 0 .. (Len(database) - 1)
         /\ node_to_return = num + 1
         /\ ~is_last(database[node_to_return].data)
    /\ pc = "first_loop" => node_to_return = first_of(database)

\* A draw was rejected on a node past the first, and a later draw of a
\* non-zero index returned.
C9_Witness ==
    /\ pc = "first_ret"
    /\ last_rejected >= 2
    /\ num >= 1

\* C10: if the database contains a non-terminal state,
\* get_first_random_node eventually returns.
C10_FirstReturns ==
    (pc = "first_loop" /\ \E n \in Nodes : ~is_last(database[n].data))
        ~> (pc = "first_ret")

\* get_first_random_node returned after rejecting a draw.
C10_Witness ==
    /\ pc = "first_ret"
    /\ last_rejected # NULL

\* C11: each successful add_node_to_frequency_list(s, t, chain) either adds 1
\* to the frequency of the one entry for t or appends the entry (t, 1) when
\* s had none, and increases s.all_following by exactly 1; so k calls leave
\* one entry for t with frequency k.
C11_Additive ==
    [][ (ret' = << "add_node_to_frequency_list", EXIT_SUCCESS >>
            /\ database' # database) =>
          \E n \in Nodes :
            LET old == database[n]
                new == database'[n]
            IN  /\ \A m \in Nodes : m # n => database'[m] = database[m]
                /\ new.all_following = old.all_following + 1
                /\ \/ \E i \in 1 .. Len(old.frequency_list) :
                         new.frequency_list =
                            [ old.frequency_list EXCEPT ![i].frequency = @ + 1 ]
                   \/ \E t \in Nodes :
                         /\ new.frequency_list =
                              Append(old.frequency_list,
                                     [ markov_node |-> t, frequency |-> 1 ])
                         /\ \A i \in 1 .. Len(old.frequency_list) :
                              comp_func(database[old.frequency_list[i].markov_node].data,
                                        database[t].data) # 0 ]_vars

\* "A" and "B." are registered in this order and A recorded B. three times,
\* then A once.
ScenarioBuilt ==
    /\ Len(database) = 2
    /\ database[1].data = << 65 >>
    /\ database[2].data = << 66, 46 >>
    /\ database[1].frequency_list =
         << [ markov_node |-> 2, frequency |-> 3 ],
            [ markov_node |-> 1, frequency |-> 1 ] >>

PickedTarget(n, rnd) ==
    database[n].frequency_list[which_node(database[n], rnd)].markov_node

\* C12 as stated: A's all_following is 4, which_node(A, r) returns the entry
\* for A for r = 0, 1, 2 and which_node(A, 3) returns the entry for B.
C12_AsStated ==
    ScenarioBuilt =>
        /\ database[1].all_following = 4
        /\ \A rnd \in 0 .. 2 : PickedTarget(1, rnd) = 1
        /\ PickedTarget(1, 3) = 2

\* C12 amended: A's all_following is 4, which_node(A, r) returns the entry
\* for B. (recorded first) for r = 0, 1, 2 and which_node(A, 3) returns the
\* entry for A.
C12_Scenario ==
    ScenarioBuilt =>
        /\ database[1].all_following = 4
        /\ \A rnd \in 0 .. 2 : PickedTarget(1, rnd) = 2
        /\ PickedTarget(1, 3) = 1

\* The scenario was built and a pick with random_num = 3 returned A.
C12_Witness ==
    /\ ScenarioBuilt
    /\ pc = "next_ret"
    /\ first_node = 1
    /\ random_num = 3
    /\ ret = << "get_next_random_node", 1 >>

\* C13: whenever add_node_to_frequency_list returns EXIT_FAILURE, every field
\* of the source state's table (entries, frequencies, following_count,
\* all_following, num_of_nodes) equals its value before the call.
C13_FailureAtomic ==
    [][ ret' = << "add_node_to_frequency_list", EXIT_FAILURE >> =>
          database' = database ]_vars

\* C14: whenever add_to_database returns NULL the database is unmodified
\* (same nodes in the same order, hence same first, last and size) and the
\* chain remains usable for later calls.
C14_FailedAddUnmodified ==
    [][ ret' = << "add_to_database", NULL >> =>
          /\ database' = database
          /\ NoCall' ]_vars

\* A registration failed on a chain that already holds states and a table.
C14_Witness ==
    /\ ret = << "add_to_database", NULL >>
    /\ Len(database) >= 1
    /\ database[1].frequency_list # NULL_LIST

\* C15: after free_markov_chain on a chain whose database holds n states,
\* free_data was called exactly once on the data of each state (n calls),
\* and every frequency list, MarkovNode and list Node, the list and the
\* chain were freed exactly once; nothing else was freed.
C15_FreedOnce ==
    (has_database /\ frees # << >>) =>
        /\ \A n \in Nodes :
             /\ Count(frees, << "data", n >>) = 1
             /\ Count(frees, << "markov_node", n >>) = 1
             /\ Count(frees, << "node", n >>) = 1
             /\ Count(frees, << "frequency_list", n >>)
                  = (IF database[n].frequency_list # NULL_LIST THEN 1 ELSE 0)
        /\ Count(frees, THE_DATABASE) = 1
        /\ Count(frees, THE_CHAIN) = 1
        /\ Cardinality({ i \in 1 .. Len(frees) : frees[i][1] = "data" })
             = Len(database)
        /\ \A i \in 1 .. Len(frees) : Count(frees, frees[i]) = 1

\* A chain of two states, one with a table and one without, was torn down.
C15_Witness ==
    /\ has_database
    /\ frees # << >>
    /\ Len(database) = 2
    /\ \E n \in Nodes : database[n].frequency_list # NULL_LIST
    /\ \E n \in Nodes : database[n].frequency_list = NULL_LIST

\* C16: after free_markov_chain(&chain) returned for a non-NULL chain, with
\* or without a database, the caller's pointer is NULL and no memory has
\* been freed twice.
C16_PointerCleared ==
    frees # << >> =>
        /\ ptr_chain = NULL
        /\ \A i \in 1 .. Len(frees) : Count(frees, frees[i]) = 1

\* C17: the walk generator is read-only: no step of get_first_random_node
\* or of generate_random_sequence (with its get_next_random_node and
\* which_node calls) changes the database or the corpus reader's position
\* in it; such a step changes only the walk's own variables.
C17_WalkReadOnly ==
    [][ pc # "fill" =>
          /\ database' = database
          /\ save_last_one' = save_last_one
          /\ start_chain' = start_chain
          /\ ret' = ret ]_vars

\* A walk rendered two states, one of them drawn with a non-zero number.
C17_Witness ==
    /\ pc = "gen_done"
    /\ Len(rendered) >= 2
    /\ random_num >= 1

\* C18: inside generate_random_sequence the current state is a state of the
\* database, also when the call was made with first_node == NULL (a random
\* non-terminal state then takes its place).
C18_NullStartsRandom ==
    len_of_tweet >= LEN_OF_TWEET =>
        first_node \in Nodes

\* C19 as stated: when generate_random_sequence returns, the current state
\* is terminal or exactly max_length - 1 states have been rendered.
C19_AsStated ==
    pc = "gen_done" =>
        \/ is_last(database[first_node].data)
        \/ Len(rendered) = max_length - 1

\* C19: when generate_random_sequence returns, the current state is terminal
\* or exactly max(0, max_length - 1) states have been rendered; with
\* max_length >= 2 a walk that rendered nothing started on a terminal state.
C19_NeverStopsEarly ==
    pc = "gen_done" =>
        /\ \/ is_last(database[first_node].data)
           \/ Len(rendered) = Max(0, max_length - 1)
        /\ (max_length >= 2 /\ rendered = << >>) =>
              is_last(database[first_node].data)

\* A walk with a budget of two states rendered one non-terminal state.
C19_Witness ==
    /\ pc = "gen_done"
    /\ max_length = 2
    /\ Len(rendered) = 1
    /\ ~is_last(database[rendered[1]].data)

AllTerminal == \A n \in Nodes : is_last(database[n].data)

\* C20: with at least one state in the database and every state terminal,
\* get_first_random_node never returns: each draw is rejected and the loop
\* goes on, without signalling anything.
C20_LoopsForever ==
    /\ []((Len(database) >= 1 /\ AllTerminal) => pc # "first_ret")
    /\ [][ (pc = "first_loop" /\ Len(database) >= 1 /\ AllTerminal) =>
              /\ pc' = "first_loop"
              /\ node_to_return' = first_of(database)
              /\ ret' = ret ]_vars

\* A draw was rejected in a database of terminal states only.
C20_Witness ==
    /\ pc = "first_loop"
    /\ Len(database) >= 1
    /\ AllTerminal
    /\ last_rejected # NULL


Sources == { transitions[t][1] : t \in 1 .. NUM_OF_TRANSITIONS }
Min(a, b) == IF a < b THEN a ELSE b

\* C21: after fill_database_snakes succeeds the database holds the cells
\* 1..100 in order; the source of each of the 20 pairs has the pair's
\* destination as its only entry, with frequency 1 and all_following 1;
\* every other cell n < 100 has exactly the entries n+1 .. min(n+6, 100),
\* each with frequency 1, and all_following is their number; cell 100 has no
\* entries.
C21_BoardBuilt ==
    (ret = << "fill_database_snakes", EXIT_SUCCESS >>) =>
        /\ Len(database) = BOARD_SIZE
        /\ \A n \in 1 .. BOARD_SIZE :
             LET node == database[n]
                 targets == { database[node.frequency_list[e].markov_node].data :
                                e \in 1 .. Len(node.frequency_list) }
             IN  /\ node.data = n
                 /\ \A e \in 1 .. Len(node.frequency_list) :
                      node.frequency_list[e].frequency = 1
                 /\ IF n \in Sources
                    THEN /\ Len(node.frequency_list) = 1
                         /\ \E t \in 1 .. NUM_OF_TRANSITIONS :
                              /\ transitions[t][1] = n
                              /\ targets = { transitions[t][2] }
                         /\ node.all_following = 1
                    ELSE IF n < BOARD_SIZE
                    THEN /\ targets = (n + 1) .. Min(n + DICE_MAX, BOARD_SIZE)
                         /\ Len(node.frequency_list) = Cardinality(targets)
                         /\ node.all_following = Len(node.frequency_list)
                    ELSE node.frequency_list = NULL_LIST


\* The tokens the builder has processed when it returns, as the claim
\* counts them: all of them, or the first min(N, n) under a limit N.
Processed ==
    IF args = MAX_NUM_ARGS
    THEN SubSeq(corpus, 1, Min(words_to_read, Len(corpus)))
    ELSE corpus

\* Number of times b follows a in w, a not ending with '.'.
Follows(w, a, b) ==
    Cardinality({ p \in 1 .. (Len(w) - 1) :
                    /\ w[p] = a
                    /\ w[p + 1] = b
                    /\ w[p][Len(w[p])] # DOT })

\* Frequency of node b in the table of node a.
RECURSIVE FrequencyOf(_, _)
FrequencyOf(list, b) ==
    IF list = << >> THEN 0
    ELSE (IF list[1].markov_node = b THEN list[1].frequency ELSE 0)
         + FrequencyOf(Tail(list), b)

\* C22: when fill_without_limit or fill_database (with limit N) has
\* returned successfully on the tokens w1..wn, each distinct processed token
\* is in the database exactly once and no other is, the frequency of b in
\* a's table is the number of processed positions where b follows a and a
\* does not end with '.', and a state whose token ends with '.' has an
\* empty table.
C22_CorpusCounts ==
    pc = "corpus_done" =>
        /\ SubSeq(corpus, 1, start_chain) = Processed
        /\ \A w \in Words :
             Cardinality({ n \in Nodes : database[n].data = w })
               = (IF \E p \in 1 .. Len(Processed) : Processed[p] = w THEN 1 ELSE 0)
        /\ \A a \in Nodes, b \in Nodes :
             FrequencyOf(database[a].frequency_list, b)
               = Follows(Processed, database[a].data, database[b].data)
        /\ \A n \in Nodes :
             database[n].data[Len(database[n].data)] = DOT =>
                 database[n].frequency_list = NULL_LIST

\* A limit cut the file short, a pair of tokens was counted twice, and a
\* token that ends with '.' was followed by another one.
C22_Witness ==
    /\ pc = "corpus_done"
    /\ \E n \in Nodes : \E e \in 1 .. Len(database[n].frequency_list) :
         database[n].frequency_list[e].frequency >= 2
    /\ \/ /\ args = MAX_NUM_ARGS
          /\ words_to_read \in 1 .. (Len(corpus) - 1)
       \/ /\ args = MIN_NUM_ARGS
          /\ \E p \in 1 .. (Len(corpus) - 1) : corpus[p][Len(corpus[p])] = DOT


\* C23: a get_next_random_node call on a state with a non-empty table
\* returns, for every number the generator can draw, the target of an entry
\* of that state's frequency list whose frequency is at least 1, and the
\* target is a state of the database.
C23_FollowsRecorded ==
    pc = "next_ret" =>
        /\ ret[2] \in Nodes
        /\ random_num \in get_random_number(database[first_node].all_following)
        /\ \E e \in 1 .. Len(database[first_node].frequency_list) :
             /\ database[first_node].frequency_list[e].markov_node = ret[2]
             /\ database[first_node].frequency_list[e].frequency >= 1

\* The pick returned the target of the second entry of a table.
C23_Witness ==
    /\ pc = "next_ret"
    /\ Len(database[first_node].frequency_list) >= 2
    /\ database[first_node].frequency_list[2].markov_node = ret[2]
    /\ database[first_node].frequency_list[1].markov_node # ret[2]


\* C24: after add_to_database calls, failed ones included, and one
\* free_markov_chain, every MarkovNode add_to_database allocated has been
\* freed exactly once and every copy copy_func returned has been passed to
\* free_data exactly once: nothing allocated is left unlinked, and each
\* linked MarkovNode and its data is freed once.
C24_NothingLost ==
    (ptr_chain = NULL /\ frees # << >>) =>
        /\ lost = << >>
        /\ \A n \in Nodes :
             /\ Count(frees, << "markov_node", n >>) = 1
             /\ Count(frees, << "data", n >>) = 1

====
